---------------------------- MODULE Spec2Model ----------------------------
(***************************************************************************)
(* Model of the proxy of src/proxy_server.py: the TCP relay handler        *)
(* (handle_tcp_client) with its shared response cache, and the UDP relay   *)
(* loop (udp_proxy_server) in front of the echo server of                  *)
(* src/web_server.py (udp_echo_server).                                    *)
(*                                                                         *)
(* Byte strings are sequences of byte values.  Every socket call of the    *)
(* code is one action; the outcomes of a call that the peer or the network *)
(* decides (how many bytes a recv returns, a timeout, an error) are        *)
(* nondeterministic choices.                                               *)
(***************************************************************************)
EXTENDS Integers, Sequences, FiniteSets, TLC

(***************************************************************************)
(* Bounds of the model.                                                    *)
(***************************************************************************)
\* number of inbound TCP connections the acceptor accepts
NConns == 2
\* number of datagrams the UDP clients send in total
MaxDgrams == 2
\* number of datagrams the UDP loop takes in step 1
MaxExch == 3
\* the safety bound on the request buffer that C16 speaks of (64 KiB there),
\* scaled to the length of the model's client streams
SafetyBound == 2

\* Worker threads of the origin server (--workers), and the connections it
\* accepts in a run
NWorkers == 2
MaxJobs == 3

\* Segments in the URL path of a request
MaxSegs == 3

Conns == 1..NConns

(***************************************************************************)
(* Bytes.                                                                  *)
(***************************************************************************)
CR == 13
LF == 10
\* b"\r\n\r\n", the header terminator searched for at proxy_server.py:74
HeaderEnd == <<CR, LF, CR, LF>>
\* the size passed to every TCP recv
RECV_SIZE == 4096

\* The byte streams a client may send before it stops sending:
\* nothing, a request cut before its terminator, a complete request "G\r\n\r\n",
\* and a complete request followed by one more byte.
ClientStreams ==
    { <<>>,
      <<71, CR, LF>>,
      <<71>> \o HeaderEnd,
      <<71>> \o HeaderEnd \o <<88>> }

\* The byte strings the upstream may answer with before it closes:
\* an empty response, and two different non-empty ones.
Responses == { <<>>, <<50>>, <<52, 48>> }

Min(a, b) == IF a < b THEN a ELSE b

\* pat in req  (bytes.__contains__)
Contains(req, pat) ==
    \E i \in 1..(Len(req) - Len(pat) + 1) :
        SubSeq(req, i, i + Len(pat) - 1) = pat

\* s[:n] and s[n:]
Take(s, n) == SubSeq(s, 1, n)
Drop(s, n) == SubSeq(s, n + 1, Len(s))

(***************************************************************************)
(* Optional values: None is the empty tuple, a present value v is <<v>>.   *)
(***************************************************************************)
None == <<>>
Some(v) == <<v>>

VARIABLES
    \* ---- shared state of the TCP proxy
    HTTP_CACHE,     \* dict: request bytes -> response bytes (a function on the keys present)
    CACHE_LOCK,     \* 0 when free, else the connection whose handler holds it
    upConnCount,    \* connections the upstream has accepted so far
    \* ---- one handle_tcp_client thread per accepted connection
    pc,             \* where the handler is
    inbuf,          \* bytes the client has still to send on the connection
    req,            \* the handler's local req
    cached,         \* the handler's local cached (None or Some(bytes))
    upbuf,          \* bytes the upstream has still to send on this handler's connection
    resp,           \* the handler's local resp
    written,        \* bytes written to the inbound connection so far
    connOpen,       \* whether the proxy's side of the inbound connection is open
    exc,            \* the exception the handler caught: None or Some([site, kind])
    \* ---- history of each handler
    readEnd,        \* how the read loop ended: "none", "term", "eof", "timeout", "error"
    upAttempts,     \* number of s.connect calls made
    upReq,          \* None, or Some(bytes sent to the upstream)
    upResp,         \* the bytes the upstream sends on this handler's connection, in full
    lookups,        \* number of HTTP_CACHE.get calls
    stores,         \* number of HTTP_CACHE[req] = resp assignments
    doneBefore,     \* the connections whose handler had finished when this one was accepted
    \* ---- the UDP relay loop (udp_proxy_server) and the echo server
    udp_pc,         \* where the loop is
    data,           \* the loop's local data
    client_addr,    \* the loop's local client_addr
    udp_resp,       \* the loop's local resp
    server_addr,    \* the loop's local server_addr
    sockq,          \* datagrams queued on the proxy's UDP socket, in arrival order
    upq,            \* datagrams queued on the echo server's socket
    \* ---- history of the UDP loop
    exch,           \* number of the current exchange (datagrams received in step 1)
    sent,           \* number of datagrams the clients have sent
    dataEchoOf,     \* the exchange whose echo step 1 received (0: a client's datagram)
    respEchoOf,     \* the exchange whose echo step 3 received (0: a client's datagram)
    replied,        \* the exchanges the echo server has replied to
    forwarded,      \* the datagrams the proxy sent to the upstream
    relayed,        \* the datagrams the proxy sent in step 3
    lastEvent,      \* the outcome of the loop's last socket call
    \* ---- the process: main() and the two server threads it starts
    main_pc,        \* where main() is
    tcp_thread,     \* where the thread running tcp_proxy_server is
    udp_thread,     \* where the thread running udp_proxy_server is
    ready_logged,   \* whether main() has logged "[PROXY] Ready"
    exit_status,    \* the process's exit status, -1 while it runs
    spawned,        \* handler threads the accept loop has started
    finished,       \* handler threads that have ended
    iterations,     \* iterations the UDP loop has made
    \* ---- the origin server in threaded mode (http_server_threaded)
    job_queue,      \* the Queue of accepted connections, oldest first
    unfinished_tasks, \* the Queue's count of jobs put and not yet marked done
    worker_pc,      \* where each worker thread is
    worker_conn,    \* the connection each worker took from the queue (0: none yet)
    accepted,       \* connections accepted so far; they are numbered in accept order
    request,        \* what the client of each connection asks for
    job_state,      \* "none", "queued", "handling", "closed", "done"
    response,       \* the status code sent on each connection (0: nothing sent)
    \* ---- history of the jobs
    puts,           \* number of job_queue.put calls for the connection
    gets,           \* the workers that got the connection from the queue
    taken,          \* the connections in the order job_queue.get returned them
    task_dones,     \* number of task_done calls made for the connection
    \* ---- one request through handle_http_client's path check
    path_pc,        \* "idle", "join", "check", "done"
    url_path,       \* the path of the request line
    file_path,      \* the local file_path
    status_code     \* the status code of the response (0: none yet)

tcpVars == << HTTP_CACHE, CACHE_LOCK, upConnCount, pc, inbuf, req, cached, upbuf,
              resp, written, connOpen, exc, readEnd, upAttempts, upReq, upResp,
              lookups, stores, doneBefore >>
udpVars == << udp_pc, data, client_addr, udp_resp, server_addr, sockq, upq, exch,
              sent, dataEchoOf, respEchoOf, replied, forwarded, relayed, lastEvent >>
mainVars == << main_pc, tcp_thread, udp_thread, ready_logged, exit_status, spawned,
               finished, iterations >>
proxyVars == << tcpVars, udpVars, mainVars >>
webVars == << job_queue, unfinished_tasks, worker_pc, worker_conn, accepted, request,
              job_state, response, puts, gets, taken, task_dones >>
pathVars == << path_pc, url_path, file_path, status_code >>
originVars == << webVars, pathVars >>
vars == << proxyVars, originVars >>

(***************************************************************************)
(* The response cache: HTTP_CACHE.get(key) and HTTP_CACHE[key] = value.    *)
(***************************************************************************)
CacheGet(cache, key) ==
    IF key \in DOMAIN cache THEN Some(cache[key]) ELSE None

\* (HTTP_CACHE.setdefault(key, value): the first value stays)
CachePutIfAbsent(cache, key, value) ==
    [k \in (DOMAIN cache) \cup {key} |-> IF k \in DOMAIN cache THEN cache[k] ELSE value]

\* (a one-entry cache: the new entry evicts the others)
CachePutEvict(cache, key, value) ==
    [k \in {key} |-> value]

CachePut(cache, key, value) ==
    [k \in (DOMAIN cache) \cup {key} |-> IF k = key THEN value ELSE cache[k]]

\* "if cached is not None" (a cached empty response is a HIT too)
IsHitTruthy(v) == v # None /\ v[1] # <<>>
IsHit(v) == v # None

\* Where the handler goes once the read loop has ended normally with r read:
\* "if not req: return" leads to the finally clause, anything else to the lookup.
AfterReadNoCheck(r) == "lookup_lock"
AfterRead(r) == IF r = <<>> THEN "finally" ELSE "lookup_lock"

\* An exception raised inside the try block: the except clause logs it and
\* control reaches the finally clause.  Nothing is written to the client.
Caught(c, site, kind) ==
    /\ exc' = [exc EXCEPT ![c] = Some([site |-> site, kind |-> kind])]
    /\ pc' = [pc EXCEPT ![c] = "finally"]

ExcKinds == {"timeout", "error"}

\* How many bytes of b a sendall that raises may have put on the wire
SentBeforeFailure(b) == {0} \cup (0..(Len(b) - 1))

(***************************************************************************)
(* tcp_proxy_server: accept one more connection and start its handler.     *)
(* Connections are numbered in the order they are accepted.                *)
(***************************************************************************)
\* (an acceptor that runs each handler itself before it accepts again)
TcpAcceptSerial(c, stream) ==
    /\ pc[c] = "idle"
    /\ \A d \in Conns : d < c => pc[d] = "done"
    /\ pc' = [pc EXCEPT ![c] = "recv"]
    /\ inbuf' = [inbuf EXCEPT ![c] = stream]
    /\ connOpen' = [connOpen EXCEPT ![c] = TRUE]
    /\ doneBefore' = [doneBefore EXCEPT ![c] = {d \in Conns : pc[d] = "done"}]
    /\ UNCHANGED << upResp, HTTP_CACHE, CACHE_LOCK, upConnCount, req, cached, upbuf, resp,
                    written, exc, readEnd, upAttempts, upReq, lookups, stores,
                    udpVars, mainVars, originVars >>

TcpAccept(c, stream) ==
    /\ pc[c] = "idle"
    /\ \A d \in Conns : d < c => pc[d] # "idle"
    /\ pc' = [pc EXCEPT ![c] = "recv"]
    /\ inbuf' = [inbuf EXCEPT ![c] = stream]
    /\ connOpen' = [connOpen EXCEPT ![c] = TRUE]
    /\ doneBefore' = [doneBefore EXCEPT ![c] = {d \in Conns : pc[d] = "done"}]
    /\ UNCHANGED << upResp, HTTP_CACHE, CACHE_LOCK, upConnCount, req, cached, upbuf, resp,
                    written, exc, readEnd, upAttempts, upReq, lookups, stores,
                    udpVars, mainVars, originVars >>

(***************************************************************************)
(* handle_tcp_client, the read loop.                                       *)
(***************************************************************************)
\* client_conn.recv(4096) returns k bytes; req += chunk; break on the terminator
ClientRecvChunk(c, k) ==
    /\ pc[c] = "recv"
    /\ k \in 1..Min(RECV_SIZE, Len(inbuf[c]))
    /\ LET r == req[c] \o Take(inbuf[c], k)
       IN  /\ req' = [req EXCEPT ![c] = r]
           /\ inbuf' = [inbuf EXCEPT ![c] = Drop(inbuf[c], k)]
           /\ IF Contains(r, HeaderEnd)
                 THEN /\ pc' = [pc EXCEPT ![c] = AfterRead(r)]
                      /\ readEnd' = [readEnd EXCEPT ![c] = "term"]
                 ELSE UNCHANGED << pc, readEnd >>
    /\ UNCHANGED << upResp, HTTP_CACHE, CACHE_LOCK, upConnCount, cached, upbuf, resp, written,
                    connOpen, exc, upAttempts, upReq, lookups, stores, doneBefore,
                    udpVars, mainVars, originVars >>

\* client_conn.recv(4096) returns b"": the peer has closed; break
ClientRecvEof(c) ==
    /\ pc[c] = "recv"
    /\ inbuf[c] = <<>>
    /\ pc' = [pc EXCEPT ![c] = AfterRead(req[c])]
    /\ readEnd' = [readEnd EXCEPT ![c] = "eof"]
    /\ UNCHANGED << upResp, HTTP_CACHE, CACHE_LOCK, upConnCount, inbuf, req, cached, upbuf,
                    resp, written, connOpen, exc, upAttempts, upReq, lookups, stores,
                    doneBefore,
                    udpVars, mainVars, originVars >>

\* client_conn.recv(4096) raises: socket.timeout after SOCKET_TIMEOUT, or an OSError
ClientRecvFail(c, kind) ==
    /\ pc[c] = "recv"
    /\ Caught(c, "client_recv", kind)
    /\ readEnd' = [readEnd EXCEPT ![c] = kind]
    /\ UNCHANGED << upResp, HTTP_CACHE, CACHE_LOCK, upConnCount, inbuf, req, cached, upbuf,
                    resp, written, connOpen, upAttempts, upReq, lookups, stores,
                    doneBefore,
                    udpVars, mainVars, originVars >>

(***************************************************************************)
(* handle_tcp_client, the cache lookup.                                    *)
(***************************************************************************)
\* (a lookup that takes the lock without waiting for it)
LookupAcquireNoWait(c) ==
    /\ pc[c] = "lookup_lock"
    /\ CACHE_LOCK' = c
    /\ pc' = [pc EXCEPT ![c] = "lookup"]
    /\ UNCHANGED << upResp, HTTP_CACHE, upConnCount, inbuf, req, cached, upbuf, resp, written,
                    connOpen, exc, readEnd, upAttempts, upReq, lookups, stores,
                    doneBefore,
                    udpVars, mainVars, originVars >>

\* with CACHE_LOCK: (acquire)
LookupAcquire(c) ==
    /\ pc[c] = "lookup_lock"
    /\ CACHE_LOCK = 0
    /\ CACHE_LOCK' = c
    /\ pc' = [pc EXCEPT ![c] = "lookup"]
    /\ UNCHANGED << upResp, HTTP_CACHE, upConnCount, inbuf, req, cached, upbuf, resp, written,
                    connOpen, exc, readEnd, upAttempts, upReq, lookups, stores,
                    doneBefore,
                    udpVars, mainVars, originVars >>

\* (a lookup that does not release the lock)
LookupKeepLock(c) ==
    /\ pc[c] = "lookup"
    /\ LET v == CacheGet(HTTP_CACHE, req[c])
       IN  /\ cached' = [cached EXCEPT ![c] = v]
           /\ pc' = [pc EXCEPT ![c] = IF IsHit(v) THEN "hit_send" ELSE "connect"]
    /\ CACHE_LOCK' = CACHE_LOCK
    /\ lookups' = [lookups EXCEPT ![c] = @ + 1]
    /\ UNCHANGED << upResp, HTTP_CACHE, upConnCount, inbuf, req, upbuf, resp, written,
                    connOpen, exc, readEnd, upAttempts, upReq, stores, doneBefore,
                    udpVars, mainVars, originVars >>

\* cached = HTTP_CACHE.get(req); (release); if cached is not None
Lookup(c) ==
    /\ pc[c] = "lookup"
    /\ LET v == CacheGet(HTTP_CACHE, req[c])
       IN  /\ cached' = [cached EXCEPT ![c] = v]
           /\ pc' = [pc EXCEPT ![c] = IF IsHit(v) THEN "hit_send" ELSE "connect"]
    /\ CACHE_LOCK' = 0
    /\ lookups' = [lookups EXCEPT ![c] = @ + 1]
    /\ UNCHANGED << upResp, HTTP_CACHE, upConnCount, inbuf, req, upbuf, resp, written,
                    connOpen, exc, readEnd, upAttempts, upReq, stores, doneBefore,
                    udpVars, mainVars, originVars >>

\* client_conn.sendall(cached); return
HitSend(c) ==
    /\ pc[c] = "hit_send"
    /\ written' = [written EXCEPT ![c] = @ \o cached[c][1]]
    /\ pc' = [pc EXCEPT ![c] = "finally"]
    /\ UNCHANGED << upResp, HTTP_CACHE, CACHE_LOCK, upConnCount, inbuf, req, cached, upbuf,
                    resp, connOpen, exc, readEnd, upAttempts, upReq, lookups, stores,
                    doneBefore,
                    udpVars, mainVars, originVars >>

\* client_conn.sendall(cached) raises after n bytes went out
HitSendFail(c, kind) ==
    /\ pc[c] = "hit_send"
    /\ \E n \in SentBeforeFailure(cached[c][1]) :
           written' = [written EXCEPT ![c] = @ \o Take(cached[c][1], n)]
    /\ Caught(c, "client_send", kind)
    /\ UNCHANGED << upResp, HTTP_CACHE, CACHE_LOCK, upConnCount, inbuf, req, cached, upbuf,
                    resp, connOpen, readEnd, upAttempts, upReq, lookups, stores,
                    doneBefore,
                    udpVars, mainVars, originVars >>

(***************************************************************************)
(* handle_tcp_client, the MISS path: one upstream connection per request.  *)
(***************************************************************************)
\* s.connect((target_host, 8000)) succeeds; r is what this upstream
\* connection will answer before it closes
UpConnect(c, r) ==
    /\ pc[c] = "connect"
    /\ upAttempts' = [upAttempts EXCEPT ![c] = @ + 1]
    /\ upConnCount' = upConnCount + 1
    /\ upbuf' = [upbuf EXCEPT ![c] = r]
    /\ upResp' = [upResp EXCEPT ![c] = r]
    /\ pc' = [pc EXCEPT ![c] = "up_send"]
    /\ UNCHANGED << HTTP_CACHE, CACHE_LOCK, inbuf, req, cached, resp, written,
                    connOpen, exc, readEnd, upReq, lookups, stores, doneBefore,
                    udpVars, mainVars, originVars >>

\* (a failed connect that is tried again)
UpConnectFailRetry(c, kind) ==
    /\ pc[c] = "connect"
    /\ upAttempts' = [upAttempts EXCEPT ![c] = @ + 1]
    /\ upAttempts[c] < 2
    /\ UNCHANGED << pc, exc >>
    /\ UNCHANGED << upResp, HTTP_CACHE, CACHE_LOCK, upConnCount, inbuf, req, cached, upbuf,
                    resp, written, connOpen, readEnd, upReq, lookups, stores,
                    doneBefore,
                    udpVars, mainVars, originVars >>

\* s.connect raises (timeout, connection refused)
UpConnectFail(c, kind) ==
    /\ pc[c] = "connect"
    /\ upAttempts' = [upAttempts EXCEPT ![c] = @ + 1]
    /\ Caught(c, "up_connect", kind)
    /\ UNCHANGED << upResp, HTTP_CACHE, CACHE_LOCK, upConnCount, inbuf, req, cached, upbuf,
                    resp, written, connOpen, readEnd, upReq, lookups, stores,
                    doneBefore,
                    udpVars, mainVars, originVars >>

\* s.sendall(req)
UpSend(c) ==
    /\ pc[c] = "up_send"
    /\ upReq' = [upReq EXCEPT ![c] = Some(req[c])]
    /\ pc' = [pc EXCEPT ![c] = "up_recv"]
    /\ UNCHANGED << upResp, HTTP_CACHE, CACHE_LOCK, upConnCount, inbuf, req, cached, upbuf,
                    resp, written, connOpen, exc, readEnd, upAttempts, lookups, stores,
                    doneBefore,
                    udpVars, mainVars, originVars >>

\* s.sendall(req) raises
UpSendFail(c, kind) ==
    /\ pc[c] = "up_send"
    /\ Caught(c, "up_send", kind)
    /\ UNCHANGED << upResp, HTTP_CACHE, CACHE_LOCK, upConnCount, inbuf, req, cached, upbuf,
                    resp, written, connOpen, readEnd, upAttempts, upReq, lookups,
                    stores, doneBefore,
                    udpVars, mainVars, originVars >>

\* (resp = data in place of resp += data)
UpRecvChunkReplace(c, k) ==
    /\ pc[c] = "up_recv"
    /\ k \in 1..Min(RECV_SIZE, Len(upbuf[c]))
    /\ resp' = [resp EXCEPT ![c] = Take(upbuf[c], k)]
    /\ upbuf' = [upbuf EXCEPT ![c] = Drop(upbuf[c], k)]
    /\ UNCHANGED << upResp, HTTP_CACHE, CACHE_LOCK, upConnCount, pc, inbuf, req, cached,
                    written, connOpen, exc, readEnd, upAttempts, upReq, lookups,
                    stores, doneBefore,
                    udpVars, mainVars, originVars >>

\* data = s.recv(4096) returns k bytes; resp += data
UpRecvChunk(c, k) ==
    /\ pc[c] = "up_recv"
    /\ k \in 1..Min(RECV_SIZE, Len(upbuf[c]))
    /\ resp' = [resp EXCEPT ![c] = @ \o Take(upbuf[c], k)]
    /\ upbuf' = [upbuf EXCEPT ![c] = Drop(upbuf[c], k)]
    /\ UNCHANGED << upResp, HTTP_CACHE, CACHE_LOCK, upConnCount, pc, inbuf, req, cached,
                    written, connOpen, exc, readEnd, upAttempts, upReq, lookups,
                    stores, doneBefore,
                    udpVars, mainVars, originVars >>

\* s.recv(4096) returns b"": the upstream has closed; break
UpRecvEof(c) ==
    /\ pc[c] = "up_recv"
    /\ upbuf[c] = <<>>
    /\ pc' = [pc EXCEPT ![c] = "store_lock"]
    /\ UNCHANGED << upResp, HTTP_CACHE, CACHE_LOCK, upConnCount, inbuf, req, cached, upbuf,
                    resp, written, connOpen, exc, readEnd, upAttempts, upReq, lookups,
                    stores, doneBefore,
                    udpVars, mainVars, originVars >>

\* (a handler that keeps in the cache what it had received when s.recv raised)
UpRecvFailStore(c, kind) ==
    /\ pc[c] = "up_recv"
    /\ Caught(c, "up_recv", kind)
    /\ HTTP_CACHE' = CachePut(HTTP_CACHE, req[c], resp[c])
    /\ UNCHANGED << upResp, CACHE_LOCK, upConnCount, inbuf, req, cached, upbuf,
                    resp, written, connOpen, readEnd, upAttempts, upReq, lookups,
                    stores, doneBefore,
                    udpVars, mainVars, originVars >>

\* s.recv(4096) raises (timeout: the upstream neither sends nor closes; reset)
UpRecvFail(c, kind) ==
    /\ pc[c] = "up_recv"
    /\ Caught(c, "up_recv", kind)
    /\ UNCHANGED << upResp, HTTP_CACHE, CACHE_LOCK, upConnCount, inbuf, req, cached, upbuf,
                    resp, written, connOpen, readEnd, upAttempts, upReq, lookups,
                    stores, doneBefore,
                    udpVars, mainVars, originVars >>

\* with CACHE_LOCK: (acquire)
StoreAcquire(c) ==
    /\ pc[c] = "store_lock"
    /\ CACHE_LOCK = 0
    /\ CACHE_LOCK' = c
    /\ pc' = [pc EXCEPT ![c] = "store"]
    /\ UNCHANGED << upResp, HTTP_CACHE, upConnCount, inbuf, req, cached, upbuf, resp, written,
                    connOpen, exc, readEnd, upAttempts, upReq, lookups, stores,
                    doneBefore,
                    udpVars, mainVars, originVars >>

\* HTTP_CACHE[req] = resp; (release)
Store(c) ==
    /\ pc[c] = "store"
    /\ HTTP_CACHE' = CachePut(HTTP_CACHE, req[c], resp[c])
    /\ CACHE_LOCK' = 0
    /\ stores' = [stores EXCEPT ![c] = @ + 1]
    /\ pc' = [pc EXCEPT ![c] = "miss_send"]
    /\ UNCHANGED << upResp, upConnCount, inbuf, req, cached, upbuf, resp, written, connOpen,
                    exc, readEnd, upAttempts, upReq, lookups, doneBefore,
                    udpVars, mainVars, originVars >>

\* client_conn.sendall(resp)
MissSend(c) ==
    /\ pc[c] = "miss_send"
    /\ written' = [written EXCEPT ![c] = @ \o resp[c]]
    /\ pc' = [pc EXCEPT ![c] = "finally"]
    /\ UNCHANGED << upResp, HTTP_CACHE, CACHE_LOCK, upConnCount, inbuf, req, cached, upbuf,
                    resp, connOpen, exc, readEnd, upAttempts, upReq, lookups, stores,
                    doneBefore,
                    udpVars, mainVars, originVars >>

\* (a handler that takes its entry out of the cache when the write fails)
MissSendFailRollback(c, kind) ==
    /\ pc[c] = "miss_send"
    /\ \E n \in SentBeforeFailure(resp[c]) :
           written' = [written EXCEPT ![c] = @ \o Take(resp[c], n)]
    /\ Caught(c, "client_send", kind)
    /\ HTTP_CACHE' = [k \in (DOMAIN HTTP_CACHE) \ {req[c]} |-> HTTP_CACHE[k]]
    /\ UNCHANGED << upResp, CACHE_LOCK, upConnCount, inbuf, req, cached, upbuf,
                    resp, connOpen, readEnd, upAttempts, upReq, lookups, stores,
                    doneBefore,
                    udpVars, mainVars, originVars >>

\* client_conn.sendall(resp) raises after n bytes went out
MissSendFail(c, kind) ==
    /\ pc[c] = "miss_send"
    /\ \E n \in SentBeforeFailure(resp[c]) :
           written' = [written EXCEPT ![c] = @ \o Take(resp[c], n)]
    /\ Caught(c, "client_send", kind)
    /\ UNCHANGED << upResp, HTTP_CACHE, CACHE_LOCK, upConnCount, inbuf, req, cached, upbuf,
                    resp, connOpen, readEnd, upAttempts, upReq, lookups, stores,
                    doneBefore,
                    udpVars, mainVars, originVars >>

(***************************************************************************)
(* handle_tcp_client, the finally clause: client_conn.close().             *)
(***************************************************************************)
CloseOnlyWithoutException(c) ==
    /\ pc[c] = "finally"
    /\ connOpen' = [connOpen EXCEPT ![c] = (exc[c] # None)]
    /\ pc' = [pc EXCEPT ![c] = "done"]
    /\ UNCHANGED << upResp, HTTP_CACHE, CACHE_LOCK, upConnCount, inbuf, req, cached, upbuf,
                    resp, written, exc, readEnd, upAttempts, upReq, lookups, stores,
                    doneBefore,
                    udpVars, mainVars, originVars >>

CloseClient(c) ==
    /\ pc[c] = "finally"
    /\ connOpen' = [connOpen EXCEPT ![c] = FALSE]
    /\ pc' = [pc EXCEPT ![c] = "done"]
    /\ UNCHANGED << upResp, HTTP_CACHE, CACHE_LOCK, upConnCount, inbuf, req, cached, upbuf,
                    resp, written, exc, readEnd, upAttempts, upReq, lookups, stores,
                    doneBefore,
                    udpVars, mainVars, originVars >>

(***************************************************************************)
(* Initial state: the proxy has started, nothing is accepted or received.  *)
(***************************************************************************)
TcpInit ==
    /\ HTTP_CACHE = << >>
    /\ CACHE_LOCK = 0
    /\ upConnCount = 0
    /\ pc = [c \in Conns |-> "idle"]
    /\ inbuf = [c \in Conns |-> <<>>]
    /\ req = [c \in Conns |-> <<>>]
    /\ cached = [c \in Conns |-> None]
    /\ upbuf = [c \in Conns |-> <<>>]
    /\ resp = [c \in Conns |-> <<>>]
    /\ written = [c \in Conns |-> <<>>]
    /\ connOpen = [c \in Conns |-> FALSE]
    /\ exc = [c \in Conns |-> None]
    /\ readEnd = [c \in Conns |-> "none"]
    /\ upAttempts = [c \in Conns |-> 0]
    /\ upReq = [c \in Conns |-> None]
    /\ upResp = [c \in Conns |-> <<>>]
    /\ lookups = [c \in Conns |-> 0]
    /\ stores = [c \in Conns |-> 0]
    /\ doneBefore = [c \in Conns |-> {}]

TcpNext ==
    \E c \in Conns :
        \/ \E stream \in ClientStreams : TcpAccept(c, stream)
        \/ \E k \in 1..Len(inbuf[c]) : ClientRecvChunk(c, k)
        \/ ClientRecvEof(c)
        \/ \E kind \in ExcKinds : ClientRecvFail(c, kind)
        \/ LookupAcquire(c)
        \/ Lookup(c)
        \/ HitSend(c)
        \/ \E kind \in ExcKinds : HitSendFail(c, kind)
        \/ \E r \in Responses : UpConnect(c, r)
        \/ \E kind \in ExcKinds : UpConnectFail(c, kind)
        \/ UpSend(c)
        \/ \E kind \in ExcKinds : UpSendFail(c, kind)
        \/ \E k \in 1..Len(upbuf[c]) : UpRecvChunk(c, k)
        \/ UpRecvEof(c)
        \/ \E kind \in ExcKinds : UpRecvFail(c, kind)
        \/ StoreAcquire(c)
        \/ Store(c)
        \/ MissSend(c)
        \/ \E kind \in ExcKinds : MissSendFail(c, kind)
        \/ CloseClient(c)

(***************************************************************************)
(* The UDP side.  A datagram is [src, payload, echoOf]: echoOf is history, *)
(* the number of the exchange whose forwarding the echo server answers     *)
(* with it, 0 for a datagram a client sent.                                *)
(***************************************************************************)
Clients == {"A", "B"}
UpstreamAddr == "UP"
ProxyAddr == "PROXY"
Payloads == { <<49>>, <<50>> }

Dgram(src, payload, echoOf) == [src |-> src, payload |-> payload, echoOf |-> echoOf]

\* udp_echo_server: s.sendto(data, addr) sends back what it received
Echo(payload) == payload

\* Where the loop goes after a failed socket call: every except clause ends
\* the iteration and the while loop starts the next one.
AfterUdpFailureStop(event) == IF event = "up_timeout" THEN "stopped" ELSE "wait_client"
AfterUdpFailure(event) == "wait_client"

\* a client sends one datagram to the proxy's UDP port
ClientSendDgram(a, p) ==
    /\ sent < MaxDgrams
    /\ sent' = sent + 1
    /\ sockq' = Append(sockq, Dgram(a, p, 0))
    /\ UNCHANGED << udp_pc, data, client_addr, udp_resp, server_addr, upq, exch,
                    dataEchoOf, respEchoOf, replied, forwarded, relayed, lastEvent,
                    tcpVars, mainVars, originVars >>

\* udp_echo_server: data, addr = s.recvfrom(65535); s.sendto(data, addr)
EchoReply ==
    /\ upq # <<>>
    /\ LET d == Head(upq)
       IN  /\ sockq' = Append(sockq, Dgram(UpstreamAddr, Echo(d.payload), d.echoOf))
           /\ replied' = replied \cup {d.echoOf}
    /\ upq' = Tail(upq)
    /\ UNCHANGED << udp_pc, data, client_addr, udp_resp, server_addr, exch, sent,
                    dataEchoOf, respEchoOf, forwarded, relayed, lastEvent,
                    tcpVars, mainVars, originVars >>

\* the upstream does not answer a forwarded datagram (the datagram or its
\* echo is lost, or the upstream is not responding)
EchoSilent ==
    /\ upq # <<>>
    /\ upq' = Tail(upq)
    /\ UNCHANGED << udp_pc, data, client_addr, udp_resp, server_addr, sockq, exch,
                    sent, dataEchoOf, respEchoOf, replied, forwarded, relayed,
                    lastEvent,
                    tcpVars, mainVars, originVars >>

(***************************************************************************)
(* udp_proxy_server, step 1: data, client_addr = s.recvfrom(65535)         *)
(***************************************************************************)
UdpRecvClient ==
    /\ udp_pc = "wait_client"
    /\ exch < MaxExch
    /\ sockq # <<>>
    /\ data' = Head(sockq).payload
    /\ client_addr' = Head(sockq).src
    /\ dataEchoOf' = Head(sockq).echoOf
    /\ sockq' = Tail(sockq)
    /\ exch' = exch + 1
    /\ udp_pc' = "forward"
    /\ lastEvent' = "client_recv"
    /\ UNCHANGED << udp_resp, server_addr, upq, sent, respEchoOf, replied, forwarded,
                    relayed,
                    tcpVars, mainVars, originVars >>

\* except socket.timeout: continue   (nothing arrived within SOCKET_TIMEOUT)
UdpRecvClientTimeout ==
    /\ udp_pc = "wait_client"
    /\ sockq = <<>>
    /\ udp_pc' = AfterUdpFailure("client_timeout")
    /\ lastEvent' = "client_timeout"
    /\ UNCHANGED << data, client_addr, udp_resp, server_addr, sockq, upq, exch, sent,
                    dataEchoOf, respEchoOf, replied, forwarded, relayed,
                    tcpVars, mainVars, originVars >>

\* except Exception: log; continue
UdpRecvClientError ==
    /\ udp_pc = "wait_client"
    /\ udp_pc' = AfterUdpFailure("client_recv_error")
    /\ lastEvent' = "client_recv_error"
    /\ UNCHANGED << data, client_addr, udp_resp, server_addr, sockq, upq, exch, sent,
                    dataEchoOf, respEchoOf, replied, forwarded, relayed,
                    tcpVars, mainVars, originVars >>

(***************************************************************************)
(* step 2: s.sendto(data, (target_host, WEB_SERVER_UDP_PORT))              *)
(***************************************************************************)
\* what step 2 sends, and where
ForwardedDgram == Dgram(ProxyAddr, data, exch)

UdpForward ==
    /\ udp_pc = "forward"
    /\ upq' = Append(upq, ForwardedDgram)
    /\ forwarded' = Append(forwarded,
                           [exch |-> exch, payload |-> ForwardedDgram.payload,
                            recvFrom |-> client_addr, recvEchoOf |-> dataEchoOf])
    /\ udp_pc' = "wait_up"
    /\ lastEvent' = "up_send"
    /\ UNCHANGED << data, client_addr, udp_resp, server_addr, sockq, exch, sent,
                    dataEchoOf, respEchoOf, replied, relayed,
                    tcpVars, mainVars, originVars >>

\* except Exception: log; continue
UdpForwardError ==
    /\ udp_pc = "forward"
    /\ udp_pc' = AfterUdpFailure("up_send_error")
    /\ lastEvent' = "up_send_error"
    /\ UNCHANGED << data, client_addr, udp_resp, server_addr, sockq, upq, exch, sent,
                    dataEchoOf, respEchoOf, replied, forwarded, relayed,
                    tcpVars, mainVars, originVars >>

(***************************************************************************)
(* step 3: resp, server_addr = s.recvfrom(65535); s.sendto(resp, client_addr) *)
(* The recvfrom is on the socket of step 1: it returns the next datagram   *)
(* queued on it, whoever sent it.                                          *)
(***************************************************************************)
UdpRecvUp ==
    /\ udp_pc = "wait_up"
    /\ sockq # <<>>
    /\ udp_resp' = Head(sockq).payload
    /\ server_addr' = Head(sockq).src
    /\ respEchoOf' = Head(sockq).echoOf
    /\ sockq' = Tail(sockq)
    /\ udp_pc' = "relay"
    /\ lastEvent' = "up_recv"
    /\ UNCHANGED << data, client_addr, upq, exch, sent, dataEchoOf, replied,
                    forwarded, relayed,
                    tcpVars, mainVars, originVars >>

\* except socket.timeout: log a warning
UdpRecvUpTimeout ==
    /\ udp_pc = "wait_up"
    /\ sockq = <<>>
    /\ udp_pc' = AfterUdpFailure("up_timeout")
    /\ lastEvent' = "up_timeout"
    /\ UNCHANGED << data, client_addr, udp_resp, server_addr, sockq, upq, exch, sent,
                    dataEchoOf, respEchoOf, replied, forwarded, relayed,
                    tcpVars, mainVars, originVars >>

\* except Exception: log
UdpRecvUpError ==
    /\ udp_pc = "wait_up"
    /\ udp_pc' = AfterUdpFailure("up_recv_error")
    /\ lastEvent' = "up_recv_error"
    /\ UNCHANGED << data, client_addr, udp_resp, server_addr, sockq, upq, exch, sent,
                    dataEchoOf, respEchoOf, replied, forwarded, relayed,
                    tcpVars, mainVars, originVars >>

\* the address step 3 sends resp to
RelayTargetServer == server_addr
RelayTarget == client_addr

\* s.sendto(resp, client_addr); log the RTT
UdpRelay ==
    /\ udp_pc = "relay"
    /\ relayed' = Append(relayed,
                         [exch |-> exch, to |-> RelayTarget, payload |-> udp_resp,
                          from |-> server_addr, echoOf |-> respEchoOf,
                          recvFrom |-> client_addr, recvPayload |-> data])
    /\ udp_pc' = "wait_client"
    /\ lastEvent' = "client_send"
    /\ UNCHANGED << data, client_addr, udp_resp, server_addr, sockq, upq, exch, sent,
                    dataEchoOf, respEchoOf, replied, forwarded,
                    tcpVars, mainVars, originVars >>

\* s.sendto(resp, client_addr) raises; except Exception: log
UdpRelayError ==
    /\ udp_pc = "relay"
    /\ udp_pc' = AfterUdpFailure("client_send_error")
    /\ lastEvent' = "client_send_error"
    /\ UNCHANGED << data, client_addr, udp_resp, server_addr, sockq, upq, exch, sent,
                    dataEchoOf, respEchoOf, replied, forwarded, relayed,
                    tcpVars, mainVars, originVars >>

UdpInit ==
    /\ udp_pc = "wait_client"
    /\ data = <<>>
    /\ client_addr = "none"
    /\ udp_resp = <<>>
    /\ server_addr = "none"
    /\ sockq = <<>>
    /\ upq = <<>>
    /\ exch = 0
    /\ sent = 0
    /\ dataEchoOf = 0
    /\ respEchoOf = 0
    /\ replied = {}
    /\ forwarded = <<>>
    /\ relayed = <<>>
    /\ lastEvent = "start"

UdpNext ==
    \/ \E a \in Clients, p \in Payloads : ClientSendDgram(a, p)
    \/ EchoReply
    \/ EchoSilent
    \/ UdpRecvClient
    \/ UdpRecvClientTimeout
    \/ UdpRecvClientError
    \/ UdpForward
    \/ UdpForwardError
    \/ UdpRecvUp
    \/ UdpRecvUpTimeout
    \/ UdpRecvUpError
    \/ UdpRelay
    \/ UdpRelayError

(***************************************************************************)
(* The process: main() starts tcp_proxy_server and udp_proxy_server as     *)
(* daemon threads, logs that the proxy is ready and joins them.  Each      *)
(* thread binds its own port; an exception that leaves a thread's function *)
(* ends that thread only.                                                  *)
(***************************************************************************)
\* t_tcp.start()
MainStartTcp ==
    /\ main_pc = "start_tcp"
    /\ tcp_thread' = "setsockopt"
    /\ main_pc' = "start_udp"
    /\ UNCHANGED << udp_thread, ready_logged, exit_status, spawned, finished,
                    iterations, tcpVars, udpVars, originVars >>

\* t_udp.start()
MainStartUdp ==
    /\ main_pc = "start_udp"
    /\ udp_thread' = "bind"
    /\ main_pc' = "log_ready"
    /\ UNCHANGED << tcp_thread, ready_logged, exit_status, spawned, finished,
                    iterations, tcpVars, udpVars, originVars >>

\* logging.info("[PROXY] Ready. ...")
MainLogReady ==
    /\ main_pc = "log_ready"
    /\ ready_logged' = TRUE
    /\ main_pc' = "join_tcp"
    /\ UNCHANGED << tcp_thread, udp_thread, exit_status, spawned, finished,
                    iterations, tcpVars, udpVars, originVars >>

\* t_tcp.join() returns once the TCP thread has ended
MainJoinTcp ==
    /\ main_pc = "join_tcp"
    /\ tcp_thread = "died"
    /\ main_pc' = "join_udp"
    /\ UNCHANGED << tcp_thread, udp_thread, ready_logged, exit_status, spawned,
                    finished, iterations, tcpVars, udpVars, originVars >>

\* t_udp.join() returns once the UDP thread has ended; main() returns and
\* the interpreter exits with status 0
MainJoinUdp ==
    /\ main_pc = "join_udp"
    /\ udp_thread = "died"
    /\ main_pc' = "exited"
    /\ exit_status' = 0
    /\ UNCHANGED << tcp_thread, udp_thread, ready_logged, spawned, finished,
                    iterations, tcpVars, udpVars, originVars >>

\* tcp_proxy_server: s.setsockopt(SOL_SOCKET, SO_REUSEADDR, 1)
TcpSetReuse ==
    /\ main_pc # "exited"
    /\ tcp_thread = "setsockopt"
    /\ tcp_thread' = "bind"
    /\ UNCHANGED << main_pc, udp_thread, ready_logged, exit_status, spawned, finished,
                    iterations, tcpVars, udpVars, originVars >>

\* s.bind((HOST, TCP_PORT)); s.listen(50); log
TcpBind ==
    /\ main_pc # "exited"
    /\ tcp_thread = "bind"
    /\ tcp_thread' = "accept"
    /\ UNCHANGED << main_pc, udp_thread, ready_logged, exit_status, spawned, finished,
                    iterations, tcpVars, udpVars, originVars >>

\* s.bind raises OSError (the port is taken): the exception leaves
\* tcp_proxy_server and the thread ends
TcpBindFail ==
    /\ main_pc # "exited"
    /\ tcp_thread = "bind"
    /\ tcp_thread' = "died"
    /\ UNCHANGED << main_pc, udp_thread, ready_logged, exit_status, spawned, finished,
                    iterations, tcpVars, udpVars, originVars >>

\* client_conn, client_addr = s.accept(); threading.Thread(...).start()
TcpAcceptSpawn ==
    /\ main_pc # "exited"
    /\ tcp_thread = "accept"
    /\ spawned < NConns
    /\ spawned' = spawned + 1
    /\ UNCHANGED << main_pc, tcp_thread, udp_thread, ready_logged, exit_status,
                    finished, iterations, tcpVars, udpVars, originVars >>

\* a handler thread reaches the end of handle_tcp_client
HandlerEnds ==
    /\ main_pc # "exited"
    /\ finished < spawned
    /\ finished' = finished + 1
    /\ UNCHANGED << main_pc, tcp_thread, udp_thread, ready_logged, exit_status,
                    spawned, iterations, tcpVars, udpVars, originVars >>

\* udp_proxy_server: s.bind((HOST, UDP_PORT))
UdpBind ==
    /\ main_pc # "exited"
    /\ udp_thread = "bind"
    /\ udp_thread' = "settimeout"
    /\ UNCHANGED << main_pc, tcp_thread, ready_logged, exit_status, spawned, finished,
                    iterations, tcpVars, udpVars, originVars >>

\* s.bind raises OSError: the exception leaves udp_proxy_server and the
\* thread ends
UdpBindFail ==
    /\ main_pc # "exited"
    /\ udp_thread = "bind"
    /\ udp_thread' = "died"
    /\ UNCHANGED << main_pc, tcp_thread, ready_logged, exit_status, spawned, finished,
                    iterations, tcpVars, udpVars, originVars >>

\* s.settimeout(SOCKET_TIMEOUT); log
UdpSetTimeout ==
    /\ main_pc # "exited"
    /\ udp_thread = "settimeout"
    /\ udp_thread' = "loop"
    /\ UNCHANGED << main_pc, tcp_thread, ready_logged, exit_status, spawned, finished,
                    iterations, tcpVars, udpVars, originVars >>

\* one iteration of the while True of udp_proxy_server
UdpIterate ==
    /\ main_pc # "exited"
    /\ udp_thread = "loop"
    /\ iterations < MaxExch
    /\ iterations' = iterations + 1
    /\ UNCHANGED << main_pc, tcp_thread, udp_thread, ready_logged, exit_status,
                    spawned, finished, tcpVars, udpVars, originVars >>

\* the process at the start of main(), after the arguments are parsed
MainInit ==
    /\ main_pc = "start_tcp"
    /\ tcp_thread = "unstarted"
    /\ udp_thread = "unstarted"
    /\ ready_logged = FALSE
    /\ exit_status = -1
    /\ spawned = 0
    /\ finished = 0
    /\ iterations = 0

\* the process with both listeners bound and main() waiting in t_tcp.join()
MainServing ==
    /\ main_pc = "join_tcp"
    /\ tcp_thread = "accept"
    /\ udp_thread = "loop"
    /\ ready_logged = TRUE
    /\ exit_status = -1
    /\ spawned = 0
    /\ finished = 0
    /\ iterations = 0

MainNext ==
    \/ MainStartTcp
    \/ MainStartUdp
    \/ MainLogReady
    \/ MainJoinTcp
    \/ MainJoinUdp
    \/ TcpSetReuse
    \/ TcpBind
    \/ TcpBindFail
    \/ TcpAcceptSpawn
    \/ HandlerEnds
    \/ UdpBind
    \/ UdpBindFail
    \/ UdpSetTimeout
    \/ UdpIterate

(***************************************************************************)
(* The origin server in threaded mode (src/web_server.py):                 *)
(* http_server_threaded puts every accepted connection on job_queue, and   *)
(* each of the worker threads runs http_worker_loop: get a connection,     *)
(* run handle_http_client on it, call task_done.                           *)
(***************************************************************************)
Workers == 1..NWorkers
Jobs == 1..MaxJobs

\* What a client may ask for, by the branch of handle_http_client it takes
RequestKinds == {"malformed", "not_get", "forbidden", "missing", "file"}

\* the status code handle_http_client answers each kind with
StatusOf(kind) ==
    CASE kind = "malformed" -> 400
      [] kind = "not_get"   -> 405
      [] kind = "forbidden" -> 403
      [] kind = "missing"   -> 404
      [] kind = "file"      -> 200

\* job_queue.put(item)
QueuePut(q, item) == Append(q, item)

\* (a stack: get returns the newest item)
QueueGetLast(q) == [item |-> q[Len(q)], rest |-> SubSeq(q, 1, Len(q) - 1)]

\* job_queue.get() on a queue that is not empty: the oldest item
QueueGet(q) == [item |-> Head(q), rest |-> Tail(q)]

\* conn, addr = s.accept(); job_queue.put((conn, addr))
WebAccept(r) ==
    /\ accepted < MaxJobs
    /\ LET j == accepted + 1
       IN  /\ accepted' = j
           /\ request' = [request EXCEPT ![j] = r]
           /\ job_queue' = QueuePut(job_queue, j)
           /\ puts' = [puts EXCEPT ![j] = @ + 1]
           /\ job_state' = [job_state EXCEPT ![j] = "queued"]
    /\ unfinished_tasks' = unfinished_tasks + 1
    /\ UNCHANGED << worker_pc, worker_conn, response, gets, taken, task_dones,
                    proxyVars, pathVars >>

\* conn, addr = job_queue.get()   (blocks while the queue is empty)
WorkerGet(w) ==
    /\ worker_pc[w] = "get"
    /\ job_queue # <<>>
    /\ LET g == QueueGet(job_queue)
       IN  /\ worker_conn' = [worker_conn EXCEPT ![w] = g.item]
           /\ job_queue' = g.rest
           /\ gets' = [gets EXCEPT ![g.item] = @ \cup {w}]
           /\ taken' = Append(taken, g.item)
           /\ job_state' = [job_state EXCEPT ![g.item] = "handling"]
    /\ worker_pc' = [worker_pc EXCEPT ![w] = "read"]
    /\ UNCHANGED << unfinished_tasks, accepted, request, response, puts, task_dones,
                    proxyVars, pathVars >>

\* handle_http_client: raw = read_http_request(conn) returns
ReadRequest(w) ==
    /\ worker_pc[w] = "read"
    /\ worker_pc' = [worker_pc EXCEPT ![w] = "respond"]
    /\ UNCHANGED << job_queue, unfinished_tasks, worker_conn, accepted, request,
                    job_state, response, puts, gets, taken, task_dones,
                    proxyVars, pathVars >>

\* read_http_request raises (socket.timeout after 5 s, or a reset)
ReadRequestFail(w) ==
    /\ worker_pc[w] = "read"
    /\ worker_pc' = [worker_pc EXCEPT ![w] = "except"]
    /\ UNCHANGED << job_queue, unfinished_tasks, worker_conn, accepted, request,
                    job_state, response, puts, gets, taken, task_dones,
                    proxyVars, pathVars >>

\* parse, choose the branch, conn.sendall(build_http_response(...)); return
Respond(w) ==
    /\ worker_pc[w] = "respond"
    /\ response' = [response EXCEPT ![worker_conn[w]] = StatusOf(request[worker_conn[w]])]
    /\ worker_pc' = [worker_pc EXCEPT ![w] = "finally"]
    /\ UNCHANGED << job_queue, unfinished_tasks, worker_conn, accepted, request,
                    job_state, puts, gets, taken, task_dones,
                    proxyVars, pathVars >>

\* open(file_path) or conn.sendall raises inside the try block
RespondFail(w) ==
    /\ worker_pc[w] = "respond"
    /\ worker_pc' = [worker_pc EXCEPT ![w] = "except"]
    /\ UNCHANGED << job_queue, unfinished_tasks, worker_conn, accepted, request,
                    job_state, response, puts, gets, taken, task_dones,
                    proxyVars, pathVars >>

\* except Exception: conn.sendall(build_http_response(500, body))
Send500(w) ==
    /\ worker_pc[w] = "except"
    /\ response' = [response EXCEPT ![worker_conn[w]] = 500]
    /\ worker_pc' = [worker_pc EXCEPT ![w] = "finally"]
    /\ UNCHANGED << job_queue, unfinished_tasks, worker_conn, accepted, request,
                    job_state, puts, gets, taken, task_dones,
                    proxyVars, pathVars >>

\* the sendall of the 500 raises too: except Exception: pass
Send500Fail(w) ==
    /\ worker_pc[w] = "except"
    /\ worker_pc' = [worker_pc EXCEPT ![w] = "finally"]
    /\ UNCHANGED << job_queue, unfinished_tasks, worker_conn, accepted, request,
                    job_state, response, puts, gets, taken, task_dones,
                    proxyVars, pathVars >>

\* finally: conn.close()
CloseConn(w) ==
    /\ worker_pc[w] = "finally"
    /\ job_state' = [job_state EXCEPT ![worker_conn[w]] = "closed"]
    /\ worker_pc' = [worker_pc EXCEPT ![w] = "task_done"]
    /\ UNCHANGED << job_queue, unfinished_tasks, worker_conn, accepted, request,
                    response, puts, gets, taken, task_dones,
                    proxyVars, pathVars >>

\* http_worker_loop: finally: job_queue.task_done(); next iteration
TaskDone(w) ==
    /\ worker_pc[w] = "task_done"
    /\ unfinished_tasks' = unfinished_tasks - 1
    /\ task_dones' = [task_dones EXCEPT ![worker_conn[w]] = @ + 1]
    /\ job_state' = [job_state EXCEPT ![worker_conn[w]] = "done"]
    /\ worker_pc' = [worker_pc EXCEPT ![w] = "get"]
    /\ UNCHANGED << job_queue, worker_conn, accepted, request, response, puts, gets,
                    taken,
                    proxyVars, pathVars >>

\* the workers are started and wait on the empty queue; the socket listens
WebInit ==
    /\ job_queue = <<>>
    /\ unfinished_tasks = 0
    /\ worker_pc = [w \in Workers |-> "get"]
    /\ worker_conn = [w \in Workers |-> 0]
    /\ accepted = 0
    /\ request = [j \in Jobs |-> "none"]
    /\ job_state = [j \in Jobs |-> "none"]
    /\ response = [j \in Jobs |-> 0]
    /\ puts = [j \in Jobs |-> 0]
    /\ gets = [j \in Jobs |-> {}]
    /\ taken = <<>>
    /\ task_dones = [j \in Jobs |-> 0]

\* the steps of worker w
WorkerStep(w) ==
    \/ WorkerGet(w)
    \/ ReadRequest(w)
    \/ ReadRequestFail(w)
    \/ Respond(w)
    \/ RespondFail(w)
    \/ Send500(w)
    \/ Send500Fail(w)
    \/ CloseConn(w)
    \/ TaskDone(w)

WebNext ==
    \/ \E r \in RequestKinds : WebAccept(r)
    \/ \E w \in Workers :
           \/ WorkerGet(w)
           \/ ReadRequest(w)
           \/ ReadRequestFail(w)
           \/ Respond(w)
           \/ RespondFail(w)
           \/ Send500(w)
           \/ Send500Fail(w)
           \/ CloseConn(w)
           \/ TaskDone(w)

(***************************************************************************)
(* safe_join_www (src/web_server.py) and the branch of handle_http_client  *)
(* that uses it.  A path is the sequence of its characters.  The functions *)
(* of os.path are those of a POSIX system.                                 *)
(***************************************************************************)
\* the working directory of the server process, and --www (default "www")
Cwd == <<"/", "s">>
WwwRoot == <<"w", "w", "w">>
IndexHtml == <<"i", "n", "d", "e", "x", ".", "h", "t", "m", "l">>

\* str.startswith
startswith(s, prefix) == Len(prefix) <= Len(s) /\ SubSeq(s, 1, Len(prefix)) = prefix

\* the index of the first ch in s, 0 when there is none
FirstIndex(s, ch) ==
    IF \E i \in 1..Len(s) : s[i] = ch
       THEN CHOOSE i \in 1..Len(s) : s[i] = ch /\ \A k \in 1..(i - 1) : s[k] # ch
       ELSE 0

\* s.split(ch, 1)[0]
split_first(s, ch) ==
    IF FirstIndex(s, ch) = 0 THEN s ELSE Take(s, FirstIndex(s, ch) - 1)

\* s.lstrip(ch)
lstrip(s, ch) ==
    LET n == CHOOSE n \in 0..Len(s) :
                 /\ \A i \in 1..n : s[i] = ch
                 /\ (n = Len(s) \/ s[n + 1] # ch)
    IN  Drop(s, n)

\* s.split(ch)
RECURSIVE split(_, _)
split(s, ch) ==
    IF FirstIndex(s, ch) = 0
       THEN << s >>
       ELSE << Take(s, FirstIndex(s, ch) - 1) >> \o split(Drop(s, FirstIndex(s, ch)), ch)

\* ch.join(comps)
RECURSIVE join(_, _)
join(comps, ch) ==
    IF comps = <<>> THEN <<>>
    ELSE IF Len(comps) = 1 THEN comps[1]
    ELSE comps[1] \o << ch >> \o join(Tail(comps), ch)

isabs(p) == startswith(p, <<"/">>)

\* os.path.join(a, b)
os_path_join(a, b) ==
    IF isabs(b) THEN b
    ELSE IF a = <<>> \/ a[Len(a)] = "/" THEN a \o b
    ELSE a \o <<"/">> \o b

DotDot == <<".", ".">>

\* the loop of os.path.normpath over the components, new_comps being the
\* components kept so far
RECURSIVE NormComps(_, _, _)
NormComps(comps, new_comps, rooted) ==
    IF comps = <<>> THEN new_comps
    ELSE LET comp == Head(comps)
             rest == Tail(comps)
         IN  IF comp = <<>> \/ comp = <<".">>
                THEN NormComps(rest, new_comps, rooted)
             ELSE IF \/ comp # DotDot
                     \/ (~rooted /\ new_comps = <<>>)
                     \/ (new_comps # <<>> /\ new_comps[Len(new_comps)] = DotDot)
                THEN NormComps(rest, Append(new_comps, comp), rooted)
             ELSE IF new_comps # <<>>
                THEN NormComps(rest, SubSeq(new_comps, 1, Len(new_comps) - 1), rooted)
             ELSE NormComps(rest, new_comps, rooted)

\* os.path.normpath(path)
normpath(path) ==
    IF path = <<>> THEN <<".">>
    ELSE LET slashes == IF ~isabs(path) THEN <<>>
                        ELSE IF startswith(path, <<"/", "/">>)
                                /\ ~startswith(path, <<"/", "/", "/">>)
                                THEN <<"/", "/">>
                                ELSE <<"/">>
             p == slashes \o join(NormComps(split(path, "/"), <<>>, slashes # <<>>), "/")
         IN  IF p = <<>> THEN <<".">> ELSE p

\* os.path.abspath(path)
abspath(path) == normpath(IF isabs(path) THEN path ELSE os_path_join(Cwd, path))

\* (the check done on whole path components)
safe_join_www_components(www_root, path) ==
    LET clean0 == lstrip(split_first(path, "?"), "/")
        clean == IF clean0 = <<>> THEN IndexHtml ELSE clean0
        joined == normpath(os_path_join(www_root, clean))
        www_abs == abspath(www_root)
        joined_abs == abspath(joined)
    IN  IF ~(joined_abs = www_abs \/ startswith(joined_abs, www_abs \o <<"/">>))
           THEN <<>>
           ELSE joined_abs

\* safe_join_www(www_root, url_path); "" is the empty sequence
safe_join_www(www_root, path) ==
    LET clean0 == lstrip(split_first(path, "?"), "/")
        clean == IF clean0 = <<>> THEN IndexHtml ELSE clean0
        joined == normpath(os_path_join(www_root, clean))
        www_abs == abspath(www_root)
        joined_abs == abspath(joined)
    IN  IF ~startswith(joined_abs, www_abs)
           THEN <<>>
           ELSE joined_abs

\* The URL paths of the requests: "/" followed by up to MaxSegs segments
\* separated by "/"
Segments ==
    { <<>>, <<".">>, DotDot, <<"a">>, <<"a", "?", "q">>, WwwRoot,
      <<"w", "w", "w", "_", "x">> }
UrlPaths ==
    { <<"/">> \o join(ss, "/") : ss \in UNION { [1..n -> Segments] : n \in 0..MaxSegs } }

\* the regular files of the file system: two in the www directory, one in
\* the directory www_x next to it, one in the working directory
Files ==
    { abspath(<<"w", "w", "w", "/">> \o IndexHtml),
      abspath(<<"w", "w", "w", "/", "a">>),
      abspath(<<"w", "w", "w", "_", "x", "/", "a">>),
      abspath(<<"a">>) }

\* a GET request with path u has been read and parsed
PathRequest(u) ==
    /\ path_pc = "idle"
    /\ url_path' = u
    /\ path_pc' = "join"
    /\ UNCHANGED << file_path, status_code, proxyVars, webVars >>

\* file_path = safe_join_www(www_root, path)
PathSafeJoin ==
    /\ path_pc = "join"
    /\ file_path' = safe_join_www(WwwRoot, url_path)
    /\ path_pc' = "check"
    /\ UNCHANGED << url_path, status_code, proxyVars, webVars >>

\* if file_path == "": 403 Forbidden
PathForbidden ==
    /\ path_pc = "check"
    /\ file_path = <<>>
    /\ status_code' = 403
    /\ path_pc' = "done"
    /\ UNCHANGED << url_path, file_path, proxyVars, webVars >>

\* if not os.path.exists(file_path) or not os.path.isfile(file_path): 404
PathNotFound ==
    /\ path_pc = "check"
    /\ file_path # <<>>
    /\ file_path \notin Files
    /\ status_code' = 404
    /\ path_pc' = "done"
    /\ UNCHANGED << url_path, file_path, proxyVars, webVars >>

\* the file is read and sent with status 200
PathServe ==
    /\ path_pc = "check"
    /\ file_path # <<>>
    /\ file_path \in Files
    /\ status_code' = 200
    /\ path_pc' = "done"
    /\ UNCHANGED << url_path, file_path, proxyVars, webVars >>

PathInit ==
    /\ path_pc = "idle"
    /\ url_path = <<>>
    /\ file_path = <<>>
    /\ status_code = 0

PathNext ==
    \/ \E u \in UrlPaths : PathRequest(u)
    \/ PathSafeJoin
    \/ PathForbidden
    \/ PathNotFound
    \/ PathServe

(***************************************************************************)
(* Specifications: the TCP proxy with its handlers, and the UDP relay loop *)
(* with its clients and the echo server, both from the state in which the  *)
(* two listeners are bound; and the start of the process.                  *)
(***************************************************************************)
Init == TcpInit /\ UdpInit /\ MainServing /\ WebInit /\ PathInit

\* the start of the process: nothing is bound yet
Start == TcpInit /\ UdpInit /\ MainInit /\ WebInit /\ PathInit

MainSpec == Start /\ [][MainNext]_vars

TcpSpec == Init /\ [][TcpNext]_vars

\* The steps of the handler of connection c.  Each handler is a thread of
\* its own, and each of its socket calls returns or raises within
\* SOCKET_TIMEOUT: a handler that can take a step eventually takes one.
HandlerStep(c) ==
    \/ \E k \in 1..Len(inbuf[c]) : ClientRecvChunk(c, k)
    \/ ClientRecvEof(c)
    \/ \E kind \in ExcKinds : ClientRecvFail(c, kind)
    \/ LookupAcquire(c)
    \/ Lookup(c)
    \/ HitSend(c)
    \/ \E kind \in ExcKinds : HitSendFail(c, kind)
    \/ \E r \in Responses : UpConnect(c, r)
    \/ \E kind \in ExcKinds : UpConnectFail(c, kind)
    \/ UpSend(c)
    \/ \E kind \in ExcKinds : UpSendFail(c, kind)
    \/ \E k \in 1..Len(upbuf[c]) : UpRecvChunk(c, k)
    \/ UpRecvEof(c)
    \/ \E kind \in ExcKinds : UpRecvFail(c, kind)
    \/ StoreAcquire(c)
    \/ Store(c)
    \/ MissSend(c)
    \/ \E kind \in ExcKinds : MissSendFail(c, kind)
    \/ CloseClient(c)

TcpFairSpec == TcpSpec /\ \A c \in Conns : WF_vars(HandlerStep(c))

UdpSpec == Init /\ [][UdpNext]_vars

\* The origin server's threaded mode.  A worker that can take a step
\* eventually takes one: its socket calls return or raise within their
\* timeouts, and job_queue.get returns once the queue holds a job.
WebSpec == Init /\ [][WebNext]_vars /\ \A w \in Workers : WF_vars(WorkerStep(w))

\* One request through the path check of handle_http_client
PathSpec == Init /\ [][PathNext]_vars

(***************************************************************************)
(* Properties of the TCP relay handler (checked under TcpSpec).            *)
(***************************************************************************)
\* the exception was raised by the upstream exchange (connect, send or receive)
UpstreamSites == {"up_connect", "up_send", "up_recv"}
UpstreamFailed(c, kind) ==
    /\ exc[c] # None
    /\ exc[c][1].site \in UpstreamSites
    /\ exc[c][1].kind = kind

\* the upstream answered every stored request with key k with the same bytes
UnchangedUpstream(k) ==
    \A d, e \in Conns :
        (stores[d] = 1 /\ stores[e] = 1 /\ req[d] = k /\ req[e] = k) => resp[d] = resp[e]

\* C1: a request whose handler starts after an earlier handler with the same
\* key has finished, the earlier one having got a response for the key (from
\* the upstream or the cache), opens no upstream connection; with an
\* unchanged upstream response and both responses written completely, the
\* bytes written to the second client equal those written to the first.
C1_RepeatServedFromCache ==
    \A c1, c2 \in Conns :
        ( /\ c1 \in doneBefore[c2]
          /\ lookups[c2] = 1
          /\ req[c2] = req[c1]
          /\ (stores[c1] = 1 \/ cached[c1] # None) )
        =>
        /\ upAttempts[c2] = 0
        /\ stores[c2] = 0
        /\ ( /\ pc[c2] = "done"
             /\ exc[c1] = None
             /\ exc[c2] = None
             /\ UnchangedUpstream(req[c1]) )
           => written[c2] = written[c1]

C1_Witness ==
    \E c1, c2 \in Conns :
        /\ c1 \in doneBefore[c2]
        /\ stores[c1] = 1
        /\ upConnCount = 1
        /\ req[c2] = req[c1]
        /\ pc[c2] = "done"
        /\ lookups[c2] = 1
        /\ exc[c2] = None
        /\ written[c1] = <<52, 48>>
        /\ written[c2] = written[c1]

\* the status code of a synthesized response, as the bytes of its digits
Status504 == <<53, 48, 52>>
Status502 == <<53, 48, 50>>

\* C2: a handler whose upstream exchange timed out has, when it finishes,
\* written a 504 response to the inbound connection.
C2_UpstreamTimeoutAnswered504 ==
    \A c \in Conns :
        (pc[c] = "done" /\ UpstreamFailed(c, "timeout")) => Contains(written[c], Status504)

\* C3: a handler whose upstream exchange failed otherwise has, when it
\* finishes, written a 502 response; the peer is not left without a response.
C3_UpstreamErrorAnswered502 ==
    \A c \in Conns :
        (pc[c] = "done" /\ UpstreamFailed(c, "error")) => Contains(written[c], Status502)

\* C4: a handler that has finished, on whatever path, has closed the inbound
\* connection; while it runs, the connection is open.
C4_ClosedOnEveryExit ==
    \A c \in Conns :
        /\ pc[c] = "done" => ~connOpen[c]
        /\ pc[c] \notin {"idle", "done"} => connOpen[c]

C4_Witness ==
    \E c, d \in Conns :
        /\ pc[c] = "done" /\ exc[c] # None /\ exc[c][1].site = "up_recv"
        /\ pc[d] = "done" /\ exc[d] # None /\ exc[d][1].site = "client_send"
        /\ ~connOpen[c] /\ ~connOpen[d]

\* the peer closed before a complete header terminator had arrived
ClosedEarly(c) == readEnd[c] = "eof" /\ ~Contains(req[c], HeaderEnd)

\* the response the handler obtained for its request
Obtained(c) == IF cached[c] # None THEN cached[c][1] ELSE resp[c]

IsPrefix(a, b) == Len(a) <= Len(b) /\ Take(b, Len(a)) = a

C6_EmptyRequestNoEffect ==
    \A c \in Conns :
        (readEnd[c] = "eof" /\ req[c] = <<>>) =>
            /\ pc[c] \in {"finally", "done"}
            /\ written[c] = <<>>
            /\ lookups[c] = 0
            /\ stores[c] = 0
            /\ upAttempts[c] = 0
            /\ upReq[c] = None
            /\ exc[c] = None

C6_Witness ==
    \E c, d \in Conns :
        /\ readEnd[c] = "eof" /\ req[c] = <<>> /\ pc[c] = "done"
        /\ d \in doneBefore[c] /\ stores[d] = 1
        /\ DOMAIN HTTP_CACHE = {req[d]}

(***************************************************************************)
(* Properties of the UDP relay loop (checked under UdpSpec).               *)
(***************************************************************************)
Relayed == {relayed[i] : i \in DOMAIN relayed}
Forwarded == {forwarded[i] : i \in DOMAIN forwarded}

\* the datagram step 3 received is the echo server's reply to this exchange
IsOwnReply(r) == r.from = UpstreamAddr /\ r.echoOf = r.exch

\* C7: every datagram relayed in step 3 is the upstream's reply to the
\* forwarding of the same exchange, sent to that exchange's client.
C7_RelayedIsOwnReply ==
    \A r \in Relayed : IsOwnReply(r) /\ r.to = r.recvFrom

\* C8: when step 3 receives the echo server's reply to the exchange, and
\* always when a single datagram was sent to the proxy, the proxy has
\* forwarded exactly the payload received in step 1 and relays the echo of
\* it, unchanged, to the address that payload came from.
C8_RoundTrip ==
    \A r \in Relayed :
        (sent = 1 \/ IsOwnReply(r)) =>
            /\ IsOwnReply(r)
            /\ \E f \in Forwarded : f.exch = r.exch /\ f.payload = r.recvPayload
            /\ r.payload = Echo(r.recvPayload)
            /\ r.to = r.recvFrom

C8_Witness ==
    /\ sent = 1
    /\ \E r \in Relayed :
          /\ r.exch = 1 /\ r.recvFrom = "A" /\ r.recvPayload = <<50>>
          /\ r.to = "A" /\ r.payload = <<50>> /\ r.from = UpstreamAddr

\* C9: the proxy relays a datagram for an exchange only if the upstream has
\* replied to that exchange's forwarding.
C9_NoRelayWithoutUpstreamReply ==
    \A r \in Relayed : r.exch \in replied

UdpFailures == {"client_timeout", "client_recv_error", "up_send_error",
                "up_timeout", "up_recv_error", "client_send_error"}

\* C10: the loop is always at one of its steps, and after every timeout or
\* error of a socket call it is waiting for a client datagram again.
C10_LoopNeverEnds ==
    /\ udp_pc \in {"wait_client", "forward", "wait_up", "relay"}
    /\ lastEvent \in UdpFailures => udp_pc = "wait_client"

C10_Witness ==
    /\ lastEvent = "up_timeout"
    /\ udp_pc = "wait_client"
    /\ exch = 2
    /\ \E r \in Relayed : r.exch = 1

(***************************************************************************)
(* Properties of the cache and of the handlers' concurrency.               *)
(***************************************************************************)
\* the handler is about to execute the statement inside "with CACHE_LOCK:"
InCacheAccess(c) == pc[c] \in {"lookup", "store"}

\* C11: a handler that is about to read or write HTTP_CACHE holds
\* CACHE_LOCK, and no two handlers are at a cache access at the same time.
C11_CacheAccessUnderLock ==
    /\ \A c \in Conns : InCacheAccess(c) => CACHE_LOCK = c
    /\ \A c, d \in Conns : (InCacheAccess(c) /\ InCacheAccess(d)) => c = d

C11_Witness ==
    \E c, d \in Conns :
        /\ pc[c] = "store" /\ CACHE_LOCK = c
        /\ pc[d] = "lookup_lock" /\ req[d] = req[c]

C13_LastStoreWins ==
    [][\A c \in Conns :
          stores'[c] = stores[c] + 1 =>
              /\ HTTP_CACHE'[req[c]] = resp[c]
              /\ \A k \in DOMAIN HTTP_CACHE : k # req[c] => HTTP_CACHE'[k] = HTTP_CACHE[k]
              /\ exc'[c] = None
              /\ pc'[c] = "miss_send"]_vars

\* two handlers have both missed on the same key, both connected to the
\* upstream and both stored; the cache holds the response of one of them
C13_Witness ==
    \E c, d \in Conns :
        /\ c # d /\ req[c] = req[d]
        /\ lookups[c] = 1 /\ lookups[d] = 1 /\ cached[c] = None /\ cached[d] = None
        /\ upAttempts[c] = 1 /\ upAttempts[d] = 1 /\ upConnCount = 2
        /\ stores[c] = 1 /\ stores[d] = 1
        /\ exc[c] = None /\ exc[d] = None
        /\ resp[c] = <<50>> /\ resp[d] = <<52, 48>>
        /\ HTTP_CACHE[req[c]] = resp[d]

\* C14 as stated: an entry, once inserted, is never removed and never changes.
C14_Original ==
    [][\A k \in DOMAIN HTTP_CACHE :
          k \in DOMAIN HTTP_CACHE' /\ HTTP_CACHE'[k] = HTTP_CACHE[k]]_vars

\* C14 amended: an entry is never removed, and its value is replaced only by
\* the store of a handler that had looked the key up before it was inserted
\* (a concurrent MISS), with the response that handler read from the upstream.
C14_EntryKept ==
    [][\A k \in DOMAIN HTTP_CACHE :
          /\ k \in DOMAIN HTTP_CACHE'
          /\ HTTP_CACHE'[k] # HTTP_CACHE[k] =>
                \E c \in Conns :
                    /\ pc[c] = "store" /\ req[c] = k /\ cached[c] = None
                    /\ resp[c] = upResp[c]
                    /\ HTTP_CACHE'[k] = resp[c]]_vars

\* the entry a handler stored has been replaced by another handler's
C14_Witness ==
    \E c \in Conns :
        /\ stores[c] = 1 /\ pc[c] = "done"
        /\ req[c] \in DOMAIN HTTP_CACHE
        /\ HTTP_CACHE[req[c]] # resp[c]
        /\ Cardinality(DOMAIN HTTP_CACHE) = 1

\* the byte stream the client sends on the connection: what was read of it
\* followed by what was not
ClientStream(c) == req[c] \o inbuf[c]

\* C15: two handlers whose clients send the same byte stream derive the same
\* key, however the stream is split into recv chunks.
C15_KeyIndependentOfChunking ==
    \A c, d \in Conns :
        (lookups[c] = 1 /\ lookups[d] = 1 /\ ClientStream(c) = ClientStream(d))
            => req[c] = req[d]

\* C16: once more than SafetyBound bytes are accumulated without a
\* terminator, the handler has stopped reading.
C16_ReadStopsAtSafetyBound ==
    \A c \in Conns :
        (Len(req[c]) > SafetyBound /\ ~Contains(req[c], HeaderEnd)) => pc[c] # "recv"

\* C18: whenever a connection is waiting to be accepted, the acceptor can
\* accept it, whatever the handlers of the earlier connections are doing.
C18_AcceptNeverWaits ==
    \A c \in Conns :
        (pc[c] = "idle" /\ \A d \in Conns : d < c => pc[d] # "idle")
            => ENABLED (\E stream \in ClientStreams : TcpAccept(c, stream))

\* every connection has been accepted and all handlers are in flight at
\* once, each waiting for the upstream
C18_Witness ==
    /\ \A c \in Conns : pc[c] = "up_recv" /\ doneBefore[c] = {}
    /\ upConnCount = NConns

\* C19: a handler calls connect at most once: not at all when the request
\* is empty, the read failed or the lookup is a HIT, and once on a MISS,
\* whether the attempt succeeds, times out or fails.
C19_OneUpstreamAttempt ==
    /\ \A c \in Conns :
          /\ upAttempts[c] <= 1
          /\ (req[c] = <<>> \/ lookups[c] = 0 \/ cached[c] # None) => upAttempts[c] = 0
          /\ (lookups[c] = 1 /\ cached[c] = None /\ pc[c] # "connect") => upAttempts[c] = 1
    /\ upConnCount <= Cardinality({c \in Conns : upAttempts[c] = 1})

C19_Witness ==
    \E c \in Conns :
        /\ pc[c] = "done"
        /\ exc[c] = Some([site |-> "up_connect", kind |-> "timeout"])
        /\ upAttempts[c] = 1
        /\ upConnCount = 0

\* C20: a handler that has stored sent the upstream exactly the bytes it
\* read from the client and holds in resp exactly the bytes the upstream
\* sent; the cache maps the request to them (unless another handler stored
\* the same key), and they are what a handler that ends without exception
\* has written to the client.
C20_MissRelaysVerbatim ==
    \A c \in Conns :
        stores[c] = 1 =>
            /\ upReq[c] = Some(req[c])
            /\ resp[c] = upResp[c]
            /\ req[c] \in DOMAIN HTTP_CACHE
            /\ (\A d \in Conns : (d # c /\ stores[d] = 1) => req[d] # req[c])
                  => HTTP_CACHE[req[c]] = upResp[c]
            /\ (pc[c] = "done" /\ exc[c] = None) => written[c] = upResp[c]

C20_Witness ==
    \E c, d \in Conns :
        /\ stores[c] = 1 /\ pc[c] = "done" /\ exc[c] = None
        /\ upResp[c] = <<52, 48>> /\ written[c] = <<52, 48>>
        /\ upReq[c] = Some(<<71>> \o HeaderEnd)
        /\ stores[d] = 1 /\ pc[d] = "done" /\ exc[d] = None
        /\ req[d] # req[c] /\ upResp[d] = <<>> /\ HTTP_CACHE[req[d]] = <<>>

(***************************************************************************)
(* Properties of the start of the process (checked under MainSpec).        *)
(***************************************************************************)
\* C17: the process is never running, having reported ready, with a
\* listener whose bind failed; and when it ends, its exit status is nonzero.
C17_BindFailureAborts ==
    /\ ~( /\ main_pc # "exited"
          /\ ready_logged
          /\ (tcp_thread = "died" \/ udp_thread = "died") )
    /\ main_pc = "exited" => exit_status # 0

(***************************************************************************)
(* Further properties of the TCP relay handler (checked under TcpSpec).    *)
(***************************************************************************)
\* C21: a handler whose read loop ended on the idle-read timeout with some
\* bytes accumulated has, when it finishes, looked the bytes up in the cache.
C21_TimeoutProceedsToLookup ==
    \A c \in Conns :
        (pc[c] = "done" /\ readEnd[c] = "timeout" /\ req[c] # <<>>) => lookups[c] = 1

(***************************************************************************)
(* Further properties of the UDP relay loop (checked under UdpSpec).       *)
(***************************************************************************)
\* C22: every datagram the proxy forwards to the upstream was received from
\* a client, never from the upstream itself.
C22_ForwardedCameFromClient ==
    \A f \in Forwarded : f.recvFrom \in Clients /\ f.recvEchoOf = 0

(***************************************************************************)
(* The cache and failures (checked under TcpSpec).                         *)
(***************************************************************************)
\* the handler's upstream exchange raised, whatever the exception
UpstreamRaised(c) == exc[c] # None /\ exc[c][1].site \in UpstreamSites

\* no handler other than d has stored d's key
NoOtherStore(d) == \A e \in Conns \ {d} : req[e] = req[d] => stores[e] = 0

\* C23: a handler whose upstream exchange raised stores nothing; every entry
\* of the cache is the complete response the upstream sent to a handler that
\* stored under that key, its exchange having ended on the upstream's close;
\* and a request that comes after the failed one with the same bytes, nobody
\* else having stored them, is a MISS.
C23_FailedExchangeNotCached ==
    /\ \A c \in Conns : UpstreamRaised(c) => stores[c] = 0
    /\ \A k \in DOMAIN HTTP_CACHE :
           \E c \in Conns :
               /\ stores[c] = 1 /\ req[c] = k /\ ~UpstreamRaised(c)
               /\ HTTP_CACHE[k] = upResp[c]
    /\ \A c, d \in Conns :
           ( /\ c \in doneBefore[d]
             /\ UpstreamRaised(c)
             /\ req[d] = req[c]
             /\ lookups[d] = 1
             /\ NoOtherStore(d) )
           => cached[d] = None

\* the upstream exchange of c failed after part of the response had arrived,
\* and the same request, made again afterwards, went to the upstream and was
\* stored
C23_Witness ==
    \E c, d \in Conns :
        /\ c \in doneBefore[d]
        /\ exc[c] # None /\ exc[c][1].site = "up_recv" /\ resp[c] = <<52>>
        /\ upResp[c] = <<52, 48>>
        /\ req[d] = req[c]
        /\ pc[d] = "done" /\ cached[d] = None /\ upAttempts[d] = 1 /\ stores[d] = 1
        /\ HTTP_CACHE[req[d]] = upResp[d]

\* the handler's write of the response to the inbound connection raised
ClientWriteFailed(c) == exc[c] # None /\ exc[c][1].site = "client_send"

\* C24: on a MISS the handler writes to the inbound connection only after its
\* store; when that write fails the entry stays in the cache, and a request
\* with the same bytes that comes afterwards is a HIT that opens no upstream
\* connection.
C24_StoreBeforeWrite ==
    /\ \A c \in Conns :
           (pc[c] = "miss_send" \/ (cached[c] = None /\ written[c] # <<>>))
               => stores[c] = 1
    /\ \A c \in Conns :
           (ClientWriteFailed(c) /\ cached[c] = None /\ lookups[c] = 1)
               => stores[c] = 1 /\ req[c] \in DOMAIN HTTP_CACHE
    /\ \A c, d \in Conns :
           ( /\ c \in doneBefore[d]
             /\ ClientWriteFailed(c) /\ stores[c] = 1
             /\ req[d] = req[c]
             /\ lookups[d] = 1 )
           => cached[d] # None /\ upAttempts[d] = 0

\* the write of a MISS failed with nothing written, and the same request made
\* afterwards was served from the cache with the response the first one stored
C24_Witness ==
    \E c, d \in Conns :
        /\ c \in doneBefore[d]
        /\ ClientWriteFailed(c) /\ stores[c] = 1 /\ written[c] = <<>>
        /\ resp[c] = <<52, 48>>
        /\ req[d] = req[c]
        /\ pc[d] = "done" /\ cached[d] = Some(resp[c]) /\ upAttempts[d] = 0
        /\ written[d] = resp[c]
        /\ upConnCount = 1

(***************************************************************************)
(* Properties of the origin server's threaded mode (checked under WebSpec).*)
(***************************************************************************)
\* the connections being handled by a worker
BeingHandled == {j \in Jobs : job_state[j] = "handling"}

\* the number of jobs whose task_done has been called
JobsDone == Cardinality({j \in Jobs : task_dones[j] = 1})

C25_Safety ==
    \* put on the queue once
    /\ \A j \in Jobs : puts[j] = IF j <= accepted THEN 1 ELSE 0
    \* got by at most one worker, once
    /\ \A j \in Jobs : Cardinality(gets[j]) <= 1
    /\ \A i, k \in DOMAIN taken : i # k => taken[i] # taken[k]
    /\ \A j \in Jobs : job_state[j] \in {"handling", "closed", "done"} <=> gets[j] # {}
    \* taken in the order of the accepts (connections are numbered in it)
    /\ \A i \in DOMAIN taken : taken[i] = i
    \* at most `workers` at a time
    /\ Cardinality(BeingHandled) <= NWorkers
    \* each job ends with the connection closed, then task_done, once
    /\ \A w \in Workers : worker_pc[w] = "task_done" => job_state[worker_conn[w]] = "closed"
    /\ \A j \in Jobs : task_dones[j] = IF job_state[j] = "done" THEN 1 ELSE 0
    /\ unfinished_tasks = accepted - JobsDone

\* C25: every accepted connection is put on the queue once and got by one
\* worker, in the order of the accepts; at most NWorkers connections are
\* being handled at a time; and whatever fails while a connection is
\* handled, every queued connection is eventually closed and marked done.
C25_WorkerQueue ==
    /\ []C25_Safety
    /\ \A j \in Jobs : (job_state[j] = "queued") ~> (job_state[j] = "done")

\* three connections have been handled, the first two by different workers
\* while the third waited in the queue; reading the first failed and nothing
\* could be sent on it, the second got a 500, the third was served
C25_Witness ==
    /\ \A j \in {1, 2, 3} : job_state[j] = "done"
    /\ gets[1] # gets[2]
    /\ response[1] = 0 /\ response[2] = 500 /\ response[3] = 200
    /\ \A w \in Workers : worker_pc[w] = "get"

(***************************************************************************)
(* Properties of the path check (checked under PathSpec).                  *)
(***************************************************************************)
WwwAbs == abspath(WwwRoot)

\* p is the www directory or a path below it
InsideWww(p) == p = WwwAbs \/ startswith(p, WwwAbs \o <<"/">>)

\* C26: what safe_join_www returns is the empty string or a path inside the
\* www directory, and only files inside it are served.
C26_NoTraversal ==
    path_pc \in {"check", "done"} =>
        /\ file_path = <<>> \/ InsideWww(file_path)
        /\ status_code = 200 => InsideWww(file_path)

=============================================================================
